---- MODULE Spec2Model ----
(***************************************************************************)
(* DynamicNavigationMesh (source/dviglo/navigation/                         *)
(* dynamic_navigation_mesh.cpp): the orchestrator that owns a Detour        *)
(* navmesh and a Detour compressed tile cache.  The Detour objects are      *)
(* modelled by their slots, salts and references, because the orchestrator  *)
(* hands references of one object to the other.                             *)
(***************************************************************************)
EXTENDS Integers, Sequences, FiniteSets, TLC

\* ------------------------------------------------------------ constants
TILECACHE_MAXLAYERS == 255
InitialCapacity == 32000
DEFAULT_MAX_LAYERS == 16
MinLayers == 3
TileSize == 64
RefBits == 22
\* Detour: a reference is 32 bits wide and needs at least 10 salt bits.
DtRefWidth == 32
DtMinSaltBits == 10
\* Detour: bits of an obstacle reference that hold the slot index.
DtObstacleIdxBits == 16

\* --------------------------------------------------------------- bounds
\* Salts grow by one at every removal; actions that would pass MaxSalt are
\* not taken.
MaxSalt == 3
\* Scaled stand-ins for Detour's MAX_REQUESTS and MAX_UPDATE (both 64).
MaxRequests == 2
MaxBlocks == 3
MaxUpdate == 2

\* ------------------------------------------------------- configuration
\* The "Max Obstacles" attribute in the configurations explored.
maxObstacles_ == 1
\* Layers produced by the "stack" geometry: one more than the smallest
\* maxLayers_ the component accepts.
NStack == MinLayers + 1

\* -------------------------------------------------------------- helpers
Pow2(n) == 2 ^ n

RECURSIVE Pow2Geq(_, _)
Pow2Geq(v, p) == IF p >= v THEN p ELSE Pow2Geq(v, 2 * p)

\* Round up to the next power of two (valid for 1 <= v).
NextPowerOfTwo(v) == Pow2Geq(v, 1)

\* Floor of the base-two logarithm: counts the right shifts that leave a
\* non-zero value.
RECURSIVE LogBaseTwo(_)
LogBaseTwo(v) == IF v <= 1 THEN 0 ELSE 1 + LogBaseTwo(v \div 2)

dtNextPow2(v) == IF v = 0 THEN 0 ELSE Pow2Geq(v, 1)
dtIlog2(v) == LogBaseTwo(v)

Min(a, b) == IF a < b THEN a ELSE b
Max(a, b) == IF a > b THEN a ELSE b
Clamp(v, lo, hi) == IF v < lo THEN lo ELSE IF v > hi THEN hi ELSE v

SeqToSet(s) == {s[i] : i \in 1..Len(s)}

RECURSIVE SelectSeqBy(_, _)
\* Members of sequence s that are in set keep, order preserved.
SelectSeqBy(s, keep) ==
    IF s = <<>> THEN <<>>
    ELSE IF Head(s) \in keep THEN <<Head(s)>> \o SelectSeqBy(Tail(s), keep)
    ELSE SelectSeqBy(Tail(s), keep)

Prefix(s, n) == SubSeq(s, 1, Min(n, Len(s)))

\* ------------------------------------------------- slot pools (Detour)
\* Both Detour objects keep their tiles in a fixed array threaded on a free
\* list that starts 0, 1, 2, ...; a freed slot goes to the head of the list
\* with its salt raised by one.  fresh is the number of slots ever used,
\* free the stack of freed slots, salt[i + 1] the salt of slot i < fresh.
SaltOf(p, i) == IF i < p.fresh THEN p.salt[i + 1] ELSE 1

\* The slot the next allocation gets, or -1 when the pool is exhausted.
NextSlot(p) ==
    IF p.free # <<>> THEN Head(p.free)
    ELSE IF p.fresh < p.maxTiles THEN p.fresh
    ELSE -1

\* Takes NextSlot(p) out of the free list.
TakeSlot(p) ==
    IF p.free # <<>> THEN [p EXCEPT !.free = Tail(p.free)]
    ELSE [p EXCEPT !.fresh = p.fresh + 1, !.salt = Append(p.salt, 1)]

\* Returns slot i to the free list and raises its salt.
FreeSlot(p, i) ==
    [p EXCEPT !.free = <<i>> \o p.free, !.salt[i + 1] = p.salt[i + 1] + 1]

\* ---------------------------------------------------- dtNavMesh (Detour)
NullNav ==
    [alloc |-> FALSE, maxTiles |-> 0, maxPolys |-> 0, tileBits |-> 0,
     polyBits |-> 0, fresh |-> 0, free |-> <<>>, salt |-> <<>>, tiles |-> {}]

NavTileBits(maxTiles) == dtIlog2(dtNextPow2(maxTiles))
NavPolyBits(maxPolys) == dtIlog2(dtNextPow2(maxPolys))

\* dtNavMesh::init succeeds when the salt keeps at least 10 of the 32 bits.
NavInitOK(maxTiles, maxPolys) ==
    DtRefWidth - NavTileBits(maxTiles) - NavPolyBits(maxPolys) >= DtMinSaltBits

NavInit(maxTiles, maxPolys) ==
    [alloc |-> TRUE, maxTiles |-> maxTiles, maxPolys |-> maxPolys,
     tileBits |-> NavTileBits(maxTiles), polyBits |-> NavPolyBits(maxPolys),
     fresh |-> 0, free |-> <<>>, salt |-> <<>>, tiles |-> {}]

\* dtNavMesh::getTileRefAt: salt, slot and a zero polygon index packed into
\* one reference; 0 when no tile is at the location.
NavGetTileRefAt(n, x, z, layer) ==
    LET at == {t \in n.tiles : t.x = x /\ t.z = z /\ t.layer = layer}
    IN  IF at = {} THEN 0
        ELSE LET t == CHOOSE t \in at : TRUE
             IN  (SaltOf(n, t.slot) * Pow2(n.tileBits) + t.slot) * Pow2(n.polyBits)

\* dtNavMesh::removeTile of the tile at a location (nothing when absent).
NavRemoveAt(n, x, z, layer) ==
    LET at == {t \in n.tiles : t.x = x /\ t.z = z /\ t.layer = layer}
    IN  IF at = {} THEN n
        ELSE LET t == CHOOSE t \in at : TRUE
             IN  [FreeSlot(n, t.slot) EXCEPT !.tiles = n.tiles \ {t}]

\* dtNavMesh::addTile: fails when the location is taken or no slot is free.
NavAddTile(n, x, z, layer) ==
    IF \/ \E t \in n.tiles : t.x = x /\ t.z = z /\ t.layer = layer
       \/ NextSlot(n) = -1
    THEN n
    ELSE [TakeSlot(n) EXCEPT
            !.tiles = n.tiles \cup {[slot |-> NextSlot(n), x |-> x, z |-> z, layer |-> layer]}]

\* -------------------------------------------------- dtTileCache (Detour)
\* tiles: the compressed tiles, newest first (the order of the position
\* lookup chains).  A tile is [slot, tx, ty, tlayer, data]; data stands for
\* the compressed bytes.
NullCache ==
    [alloc |-> FALSE, maxTiles |-> 0, tileBits |-> 0, fresh |-> 0,
     free |-> <<>>, salt |-> <<>>, tiles |-> <<>>,
     maxObstacles |-> 0, obHead |-> -1, obs |-> <<>>,
     reqs |-> <<>>, update |-> <<>>]

CacheTileBits(maxTiles) == dtIlog2(dtNextPow2(maxTiles))

\* dtTileCache::init succeeds when the salt keeps at least 10 of the 32 bits.
CacheInitOK(maxTiles) == DtRefWidth - CacheTileBits(maxTiles) >= DtMinSaltBits

\* The obstacle array: obs[i + 1] is slot i, threaded on a free list through
\* next (-1 ends it), all salts 1.
CacheInit(maxTiles, maxObstacles) ==
    [NullCache EXCEPT
        !.alloc = TRUE, !.maxTiles = maxTiles,
        !.tileBits = CacheTileBits(maxTiles),
        !.maxObstacles = maxObstacles,
        !.obHead = IF maxObstacles > 0 THEN 0 ELSE -1,
        !.obs = [i \in 1..maxObstacles |->
                   [state |-> "empty", salt |-> 1, pos |-> <<0, 0>>,
                    touched |-> <<>>, pending |-> {},
                    next |-> IF i < maxObstacles THEN i ELSE -1]]]

\* dtTileCache::getTileRef: salt above the slot index.
CacheTileRef(c, slot) == SaltOf(c, slot) * Pow2(c.tileBits) + slot

\* dtTileCache::getTilesAt: at most maxN references, in chain order.
CacheGetTilesAt(c, tx, ty, maxN) ==
    LET at == SelectSeqBy(c.tiles, {t \in SeqToSet(c.tiles) : t.tx = tx /\ t.ty = ty})
    IN  [i \in 1..Min(maxN, Len(at)) |-> CacheTileRef(c, at[i].slot)]

CacheTileBySlot(c, slot) == {t \in SeqToSet(c.tiles) : t.slot = slot}

\* dtTileCache::removeTile.  The reference is decoded as slot and salt.
\* "fail": null reference, slot out of range or salt mismatch;
\* "crash": the salt matches a slot that holds no tile, whose null header
\* the code then reads; "ok": the tile is unlinked and its slot freed.
CacheRemoveStatus(c, ref) ==
    LET idx == ref % Pow2(c.tileBits)
        salt == ref \div Pow2(c.tileBits)
    IN  IF ref = 0 \/ idx >= c.maxTiles \/ SaltOf(c, idx) # salt THEN "fail"
        ELSE IF CacheTileBySlot(c, idx) = {} THEN "crash"
        ELSE "ok"

CacheRemoveTile(c, ref) ==
    LET idx == ref % Pow2(c.tileBits)
    IN  IF CacheRemoveStatus(c, ref) # "ok" THEN c
        ELSE [FreeSlot(c, idx) EXCEPT
                !.tiles = SelectSeqBy(c.tiles, {t \in SeqToSet(c.tiles) : t.slot # idx})]

\* dtTileCache::addTile: fails when (tx, ty, tlayer) is taken or no slot is
\* free.  Returns the new cache and the reference (0 on failure).
CacheAddTile(c, blob) ==
    IF \/ \E t \in SeqToSet(c.tiles) :
             t.tx = blob.tx /\ t.ty = blob.ty /\ t.tlayer = blob.tlayer
       \/ NextSlot(c) = -1
    THEN [ok |-> FALSE, cache |-> c, ref |-> 0]
    ELSE LET s == NextSlot(c)
             c2 == [TakeSlot(c) EXCEPT
                      !.tiles = <<[slot |-> s, tx |-> blob.tx, ty |-> blob.ty,
                                   tlayer |-> blob.tlayer, data |-> blob.data]>> \o c.tiles]
         IN  [ok |-> TRUE, cache |-> c2, ref |-> CacheTileRef(c2, s)]

\* Detour: getTilesAt buffers of the cache's own calls, and the number of
\* tiles an obstacle can touch.
DtMaxTilesAt == 32
DtMaxTouched == 8

\* Whether the layer behind these bytes yields polygons.
HasPolys(data) == data # "void"

\* dtTileCache::buildNavMeshTile: on a valid reference, the navmesh tile at
\* the blob's (tx, ty, tlayer) is removed and, when the layer has polygons,
\* added again from the blob.  An invalid reference changes nothing.
CacheBuildNavMeshTile(c, n, ref) ==
    LET idx == ref % Pow2(c.tileBits)
        salt == ref \div Pow2(c.tileBits)
        at == CacheTileBySlot(c, idx)
    IN  IF idx > c.maxTiles \/ SaltOf(c, idx) # salt \/ at = {} THEN n
        ELSE LET t == CHOOSE t \in at : TRUE
                 removed == NavRemoveAt(n, t.tx, t.ty, t.tlayer)
             IN  IF HasPolys(t.data) THEN NavAddTile(removed, t.tx, t.ty, t.tlayer)
                 ELSE removed

RECURSIVE CacheBuildRefs(_, _, _)
CacheBuildRefs(c, n, refs) ==
    IF refs = <<>> THEN n
    ELSE CacheBuildRefs(c, CacheBuildNavMeshTile(c, n, Head(refs)), Tail(refs))

\* dtTileCache::buildNavMeshTilesAt.
CacheBuildNavMeshTilesAt(c, n, tx, ty) ==
    CacheBuildRefs(c, n, CacheGetTilesAt(c, tx, ty, DtMaxTilesAt))

\* ------------------------------------------- obstacles of the tile cache
ObstacleRef(salt, slot) == salt * Pow2(DtObstacleIdxBits) + slot

\* dtTileCache::addObstacle: fails on a full request queue or when no
\* obstacle slot is free; otherwise the slot leaves the free list, becomes
\* "processing" and an add request is queued.
CacheAddObstacle(c, pos) ==
    IF Len(c.reqs) >= MaxRequests \/ c.obHead = -1
    THEN [ok |-> FALSE, cache |-> c, ref |-> 0]
    ELSE LET i == c.obHead
             ob == c.obs[i + 1]
             ref == ObstacleRef(ob.salt, i)
         IN  [ok |-> TRUE, ref |-> ref,
              cache |-> [c EXCEPT
                  !.obHead = ob.next,
                  !.obs[i + 1] = [state |-> "processing", salt |-> ob.salt, pos |-> pos,
                                  touched |-> <<>>, pending |-> {}, next |-> -1],
                  !.reqs = Append(c.reqs, [action |-> "add", ref |-> ref])]]

\* dtTileCache::removeObstacle: a null reference succeeds at once; a full
\* queue fails; otherwise a remove request is queued (the reference is not
\* validated here).
CacheRemoveObstacle(c, ref) ==
    IF ref = 0 THEN [ok |-> TRUE, cache |-> c]
    ELSE IF Len(c.reqs) >= MaxRequests THEN [ok |-> FALSE, cache |-> c]
    ELSE [ok |-> TRUE,
          cache |-> [c EXCEPT !.reqs = Append(c.reqs, [action |-> "remove", ref |-> ref])]]

RECURSIVE AddToUpdate(_, _, _)
\* The loop over an obstacle's touched tiles: while the update list has
\* room, the tile is appended to it (once) and recorded as pending.
AddToUpdate(update, pending, touched) ==
    IF touched = <<>> THEN [update |-> update, pending |-> pending]
    ELSE IF Len(update) < MaxUpdate
    THEN AddToUpdate(IF Head(touched) \in SeqToSet(update) THEN update
                     ELSE Append(update, Head(touched)),
                     pending \cup {Head(touched)}, Tail(touched))
    ELSE AddToUpdate(update, pending, Tail(touched))

\* One request of dtTileCache::update's first phase.
ProcessRequest(c, req) ==
    LET i == req.ref % Pow2(DtObstacleIdxBits)
        salt == req.ref \div Pow2(DtObstacleIdxBits)
    IN  IF i >= c.maxObstacles THEN c
        ELSE IF c.obs[i + 1].salt # salt THEN c
        ELSE LET ob == c.obs[i + 1]
                 touched == IF req.action = "add"
                            THEN Prefix(CacheGetTilesAt(c, ob.pos[1], ob.pos[2], DtMaxTilesAt),
                                        DtMaxTouched)
                            ELSE ob.touched
                 r == AddToUpdate(c.update, {}, touched)
             IN  [c EXCEPT
                    !.update = r.update,
                    !.obs[i + 1] = [ob EXCEPT
                        !.state = IF req.action = "add" THEN ob.state ELSE "removing",
                        !.touched = touched,
                        !.pending = r.pending]]

RECURSIVE ProcessRequests(_, _)
ProcessRequests(c, reqs) ==
    IF reqs = <<>> THEN [c EXCEPT !.reqs = <<>>]
    ELSE ProcessRequests(ProcessRequest(c, Head(reqs)), Tail(reqs))

RECURSIVE UpdateObstacleStates(_, _, _)
\* After one tile was rebuilt: every processing or removing obstacle drops
\* the tile from its pending list; with nothing pending, a processing one
\* becomes processed and a removing one is freed (salt raised, pushed on the
\* free list).
UpdateObstacleStates(c, ref, i) ==
    IF i >= c.maxObstacles THEN c
    ELSE LET ob == c.obs[i + 1]
             pend == ob.pending \ {ref}
             c2 == IF ob.state \notin {"processing", "removing"} THEN c
                   ELSE IF pend # {} THEN [c EXCEPT !.obs[i + 1].pending = pend]
                   ELSE IF ob.state = "processing"
                   THEN [c EXCEPT !.obs[i + 1].pending = pend,
                                  !.obs[i + 1].state = "processed"]
                   ELSE [c EXCEPT !.obs[i + 1].pending = pend,
                                  !.obs[i + 1].state = "empty",
                                  !.obs[i + 1].salt = ob.salt + 1,
                                  !.obs[i + 1].next = c.obHead,
                                  !.obHead = i]
         IN  UpdateObstacleStates(c2, ref, i + 1)

\* dtTileCache::update(dt, navmesh): with an empty update list, all queued
\* requests are processed; then at most one tile of the update list is
\* rebuilt into the navmesh.
CacheUpdate(c, n) ==
    LET rebuildHead(c1) ==
            IF c1.update = <<>> THEN [cache |-> c1, nav |-> n]
            ELSE [cache |-> UpdateObstacleStates([c1 EXCEPT !.update = Tail(c1.update)],
                                                 Head(c1.update), 0),
                  nav |-> CacheBuildNavMeshTile(c1, n, Head(c1.update))]
    IN  rebuildHead(IF c.update = <<>> THEN ProcessRequests(c, c.reqs) ELSE c)

\* ===================================================================
\*                       DynamicNavigationMesh
\* ===================================================================
VARIABLES
    node_,          \* the component is attached to a scene node
    enabled_,       \* IsEnabledEffective()
    maxLayers_,
    boundingBox_,   \* [w, h]: the box's extent in cells (rcCalcGridSize)
    numTilesX_, numTilesZ_,
    navMesh_,       \* dtNavMesh, alloc = FALSE for a null pointer
    tileCache_,     \* dtTileCache, alloc = FALSE for a null pointer
    obstacleId_,    \* obstacle component -> its obstacleId_
    crashed,        \* the process died on a null dereference
    meshProcessor_, \* MeshProcess: the connection arrays it keeps between calls
    allocator_,     \* LinearAllocator: buffer (FALSE for null), capacity, top, high
    op              \* the last operation: name, arguments, result, effects

vars == <<node_, enabled_, maxLayers_, boundingBox_, numTilesX_, numTilesZ_,
          navMesh_, tileCache_, obstacleId_, crashed, meshProcessor_, allocator_, op>>

ZeroBox == [w |-> 0, h |-> 0]

\* The fields an operation reads and writes, threaded through its steps.
\* ev: events and error logs in emission order; upd: calls of the cache's
\* update; drained: an update call found queued requests or pending tiles;
\* spin: longest run of a queue-full loop; built: BuildTile invocations;
\* calls: the calls made on the tile cache that insert a blob, merge blobs
\* into the navmesh, step the cache or register an obstacle, in call order.
Cur ==
    [node |-> node_, maxLayers |-> maxLayers_, box |-> boundingBox_,
     nx |-> numTilesX_, nz |-> numTilesZ_, nav |-> navMesh_,
     cache |-> tileCache_, ids |-> obstacleId_, crashed |-> FALSE,
     ret |-> "void", out |-> <<>>, ev |-> <<>>, upd |-> 0, drained |-> FALSE,
     spin |-> 0, built |-> <<>>, calls |-> <<>>]

\* An event or error log line, with up to two integer parameters.
Ev(type, a, b) == <<type, a, b>>

\* ------------------------------------------------------------ the scene
\* Geometry the collector finds in a tile: "none" no triangles, "flat" one
\* walkable layer, "stack" NStack walkable layers, "broken" triangles on
\* which a Recast step fails, "badlayer" NStack layers the second of which
\* the tile-cache layer builder refuses.
LayersOf(kind) ==
    IF kind \in {"none", "broken"} THEN 0 ELSE IF kind = "flat" THEN 1 ELSE NStack

\* dtBuildTileCacheLayer fails on layer i of this geometry.
LayerBuildFails(kind, i) == kind = "badlayer" /\ i = 1

\* A scene: whether it has any geometry, the extent in cells of the padded
\* union of the geometry boxes, and the kind of geometry per tile.
SceneKind(scene, x, z) ==
    IF <<x, z>> \in DOMAIN scene.kind THEN scene.kind[<<x, z>>] ELSE "none"

\* The tile an obstacle component stands in.
ObPos(o) == <<0, 0>>

\* ------------------------------------------- release_navigation_mesh
\* NavigationMesh::release_navigation_mesh frees the navmesh and zeroes the
\* bounding box and the grid; ReleaseTileCache frees the cache.
ReleaseTileCache(m) == [m EXCEPT !.cache = NullCache]

\* A release that frees the navmesh and forgets the tile cache.
release_navigation_mesh_KeepsCache(m) ==
    [m EXCEPT !.nav = NullNav, !.box = ZeroBox, !.nx = 0, !.nz = 0]

release_navigation_mesh(m) ==
    ReleaseTileCache([m EXCEPT !.nav = NullNav, !.box = ZeroBox, !.nx = 0, !.nz = 0])

\* ------------------------------------------------ AddObstacle and co.
SpinFuel == MaxUpdate + 3

\* A loop whose body leaves the cache as it is.
SpinWhileQueueFull_NoUpdate(c, n, k) ==
    [cache |-> c, nav |-> n,
     steps |-> IF Len(c.reqs) < MaxRequests THEN k ELSE SpinFuel]

RECURSIVE SpinWhileQueueFull(_, _, _)
\* while (tileCache_->isObstacleQueueFull()) tileCache_->update(1, navMesh_);
\* steps counts the iterations; the unrolling stops at SpinFuel.
SpinWhileQueueFull(c, n, k) ==
    IF Len(c.reqs) < MaxRequests \/ k >= SpinFuel
    THEN [cache |-> c, nav |-> n, steps |-> k]
    ELSE LET again(u) == SpinWhileQueueFull(u.cache, u.nav, k + 1)
         IN  again(CacheUpdate(c, n))

AfterSpin(m, s) ==
    [m EXCEPT !.cache = s.cache, !.nav = s.nav, !.upd = @ + s.steps,
              !.drained = @ \/ s.steps > 0, !.spin = Max(@, s.steps),
              !.calls = @ \o [i \in 1..s.steps |-> <<"update", 0, 0, 0>>]]

AddObstacle(m, o, silent) ==
    LET added(m1, r) ==
            IF ~r.ok
            THEN [m1 EXCEPT !.ev = Append(@, Ev("error: Failed to add obstacle", o, 0))]
            ELSE [m1 EXCEPT !.cache = r.cache, !.ids[o] = r.ref,
                            !.calls = Append(@, <<"addObstacle", o, 0, 0>>),
                            !.ev = IF silent THEN @
                                   ELSE Append(@, Ev("E_NAVIGATION_OBSTACLE_ADDED", o, 0))]
        add(m1) == added(m1, CacheAddObstacle(m1.cache, ObPos(o)))
    IN  IF m.crashed \/ ~m.cache.alloc THEN m
        ELSE add(AfterSpin(m, SpinWhileQueueFull(m.cache, m.nav, 0)))

\* A removal that also throws the compressed tiles away.
RemoveObstacle_DropsTiles(m, o, silent) ==
    IF m.crashed \/ ~m.cache.alloc \/ m.ids[o] = 0 THEN m
    ELSE [m EXCEPT !.cache.tiles = <<>>, !.ids[o] = 0]

RemoveObstacle(m, o, silent) ==
    LET removed(m1, r) ==
            IF ~r.ok
            THEN [m1 EXCEPT !.ev = Append(@, Ev("error: Failed to remove obstacle", o, 0))]
            ELSE [m1 EXCEPT !.cache = r.cache, !.ids[o] = 0,
                            !.calls = Append(@, <<"removeObstacle", o, 0, 0>>),
                            !.ev = IF silent THEN @
                                   ELSE Append(@, Ev("E_NAVIGATION_OBSTACLE_REMOVED", o, 0))]
        remove(m1) == removed(m1, CacheRemoveObstacle(m1.cache, m1.ids[o]))
    IN  IF m.crashed \/ ~m.cache.alloc \/ m.ids[o] = 0 THEN m
        ELSE remove(AfterSpin(m, SpinWhileQueueFull(m.cache, m.nav, 0)))

ObstacleChanged(m, o) ==
    IF ~m.cache.alloc THEN m
    ELSE AddObstacle(RemoveObstacle(m, o, TRUE), o, TRUE)

RECURSIVE AddObstacles(_, _)
\* The scan for obstacles to insert: every enabled obstacle component of
\* the scene, in scene order.
AddObstacles(m, os) ==
    IF os = {} THEN m
    ELSE LET o == CHOOSE o \in os : \A p \in os : o <= p
         IN  AddObstacles(AddObstacle(m, o, FALSE), os \ {o})

\* ---------------------------------------------------------- BuildTile
\* The blob of layer i of the tile at (x, z): header fields and bytes.
Blob(x, z, i, kind) == [tx |-> x, ty |-> z, tlayer |-> i, data |-> kind]

\* BuildTile(geometryList, x, z, tiles).  First the cache is asked to remove
\* the reference the navmesh gives for (x, z, 0); then the tile's layers are
\* built from the geometry and serialized into tiles.
\* A failed layer that leaves the layers serialized before it in the result.
LayerFailed_KeepsEarlier(tiles) == [ok |-> FALSE, tiles |-> tiles, data |-> tiles]

\* DV_LOGERROR("Failed to build tile cache layers"); return 0; the count
\* returned is 0 (tiles), the data of the layers serialized so far stays in
\* the caller's array (data).
LayerFailed(tiles) == [ok |-> FALSE, tiles |-> <<>>, data |-> tiles]

RECURSIVE SerializeLayers(_, _, _, _, _)
\* The loop over the layers of the tile: layer i is serialized into
\* tiles[retCt]; the first failure ends the tile.
SerializeLayers(x, z, kind, i, tiles) ==
    IF i >= LayersOf(kind) THEN [ok |-> TRUE, tiles |-> tiles, data |-> tiles]
    ELSE IF LayerBuildFails(kind, i) THEN LayerFailed(tiles)
    ELSE SerializeLayers(x, z, kind, i + 1, Append(tiles, Blob(x, z, i, kind)))

BuildTile(m, scene, x, z) ==
    LET ref == NavGetTileRefAt(m.nav, x, z, 0)
        status == CacheRemoveStatus(m.cache, ref)
        kind == SceneKind(scene, x, z)
        removed(t) == <<"BuildTile removeTile", t.tx, t.ty, t.tlayer>>
        allocs(s) == [i \in 1..Len(s.data) |-> <<"alloc", x, z, s.data[i].tlayer>>]
        serialized(m1, s) ==
            IF ~s.ok
            THEN [m |-> [m1 EXCEPT !.ev = Append(@, Ev("error: Failed to build tile cache layers",
                                                        0, 0)),
                                   !.calls = @ \o allocs(s)],
                  tiles |-> s.tiles]
            ELSE [m |-> [m1 EXCEPT !.ev = Append(@, Ev("E_NAVIGATION_AREA_REBUILT", x, z)),
                                   !.calls = @ \o allocs(s)],
                  tiles |-> s.tiles]
        collected(m1) ==
            IF kind = "none" THEN [m |-> m1, tiles |-> <<>>]
            ELSE IF kind = "broken"
            THEN [m |-> [m1 EXCEPT !.ev = Append(@, Ev("error: Could not build regions", 0, 0))],
                  tiles |-> <<>>]
            ELSE serialized(m1, SerializeLayers(x, z, kind, 0, <<>>))
    IN  IF status = "crash" THEN [m |-> [m EXCEPT !.crashed = TRUE], tiles |-> <<>>]
        ELSE collected(
                [m EXCEPT !.cache = CacheRemoveTile(m.cache, ref),
                          !.built = Append(@, <<x, z>>),
                          !.calls = IF status # "ok" THEN @
                                    ELSE Append(@, removed(CHOOSE t \in CacheTileBySlot(
                                                    m.cache, ref % Pow2(m.cache.tileBits)) : TRUE))])

RECURSIVE RemoveRefs(_, _)
\* removeTile for each reference of a getTilesAt result.
RemoveRefs(c, refs) ==
    IF refs = <<>> THEN c
    ELSE RemoveRefs(CacheRemoveTile(c, Head(refs)), Tail(refs))

RECURSIVE AddAndBuildLayers(_, _)
\* build_tiles: each layer is added to the cache and, when the add
\* succeeded, built into the navmesh at once.
AddAndBuildLayers(m, tiles) ==
    LET added(r) ==
            IF ~r.ok
            THEN [m EXCEPT !.calls = Append(@, <<"free", Head(tiles).tx, Head(tiles).ty,
                                                 Head(tiles).tlayer>>)]
            ELSE [m EXCEPT !.cache = r.cache,
                           !.nav = CacheBuildNavMeshTile(r.cache, m.nav, r.ref),
                           !.calls = @ \o <<<<"addTile", Head(tiles).tx, Head(tiles).ty,
                                              Head(tiles).tlayer>>,
                                            <<"buildNavMeshTile", Head(tiles).tx,
                                              Head(tiles).ty, Head(tiles).tlayer>>>>]
    IN  IF tiles = <<>> THEN m
        ELSE AddAndBuildLayers(added(CacheAddTile(m.cache, Head(tiles))), Tail(tiles))

RECURSIVE AddLayers(_, _)
\* Build(): each layer is added to the cache (a failed add frees the data).
AddLayers(m, tiles) ==
    LET added(r) ==
            IF ~r.ok
            THEN [m EXCEPT !.calls = Append(@, <<"free", Head(tiles).tx, Head(tiles).ty,
                                                 Head(tiles).tlayer>>)]
            ELSE [m EXCEPT !.cache = r.cache,
                           !.calls = Append(@, <<"addTile", Head(tiles).tx, Head(tiles).ty,
                                                 Head(tiles).tlayer>>)]
    IN  IF tiles = <<>> THEN m
        ELSE AddLayers(added(CacheAddTile(m.cache, Head(tiles))), Tail(tiles))

\* Tile coordinates of the loops "for z in z0..z1, for x in x0..x1".
RowMajor(x0, z0, x1, z1) ==
    LET w == IF x1 >= x0 THEN x1 - x0 + 1 ELSE 0
        h == IF z1 >= z0 THEN z1 - z0 + 1 ELSE 0
    IN  [k \in 1..(w * h) |-> <<x0 + ((k - 1) % w), z0 + ((k - 1) \div w)>>]

RECURSIVE BuildTilesLoop(_, _, _)
BuildTilesLoop(m, scene, coords) ==
    LET x == Head(coords)[1]
        z == Head(coords)[2]
        existing == CacheGetTilesAt(m.cache, x, z, m.maxLayers)
        m1 == [m EXCEPT !.cache = RemoveRefs(m.cache, existing)]
        layered(b) == IF b.m.crashed THEN b.m ELSE AddAndBuildLayers(b.m, b.tiles)
    IN  IF coords = <<>> \/ m.crashed THEN m
        ELSE BuildTilesLoop(layered(BuildTile(m1, scene, x, z)), scene, Tail(coords))

\* build_tiles(geometryList, from, to).
build_tiles(m, scene, from, to) ==
    BuildTilesLoop(m, scene, RowMajor(from[1], from[2], to[1], to[2]))

RECURSIVE BuildAllLoop_StopsAtEmpty(_, _, _)
\* A tile loop that gives up at the first tile without layers.
BuildAllLoop_StopsAtEmpty(m, scene, coords) ==
    LET x == Head(coords)[1]
        z == Head(coords)[2]
        built(bm) ==
            [bm EXCEPT !.nav = CacheBuildNavMeshTilesAt(bm.cache, bm.nav, x, z),
                       !.calls = Append(@, <<"buildNavMeshTilesAt", x, z, 0>>)]
        layered(b) ==
            IF b.m.crashed \/ b.tiles = <<>> THEN b.m
            ELSE BuildAllLoop_StopsAtEmpty(built(AddLayers(b.m, b.tiles)), scene, Tail(coords))
    IN  IF coords = <<>> \/ m.crashed THEN m
        ELSE layered(BuildTile(m, scene, x, z))

RECURSIVE BuildAllLoop(_, _, _)
\* The tile loop of Build(): BuildTile, addTile for every layer, then
\* buildNavMeshTilesAt for the coordinate.
BuildAllLoop(m, scene, coords) ==
    LET x == Head(coords)[1]
        z == Head(coords)[2]
        built(bm) ==
            [bm EXCEPT !.nav = CacheBuildNavMeshTilesAt(bm.cache, bm.nav, x, z),
                       !.calls = Append(@, <<"buildNavMeshTilesAt", x, z, 0>>)]
        layered(b) ==
            IF b.m.crashed THEN b.m ELSE built(AddLayers(b.m, b.tiles))
    IN  IF coords = <<>> \/ m.crashed THEN m
        ELSE BuildAllLoop(layered(BuildTile(m, scene, x, z)), scene, Tail(coords))

\* tileCache_->update(dt, navMesh_) as one step of an operation.
UpdateCache(m) ==
    LET updated(u) ==
            [m EXCEPT !.cache = u.cache, !.nav = u.nav, !.upd = @ + 1,
                      !.drained = @ \/ m.cache.reqs # <<>> \/ m.cache.update # <<>>,
                      !.calls = Append(@, <<"update", 0, 0, 0>>)]
    IN  updated(CacheUpdate(m.cache, m.nav))

GridTiles(cells) == (cells + TileSize - 1) \div TileSize

Fail(m, text) == [m EXCEPT !.ret = "false", !.ev = Append(@, Ev(text, 0, 0))]

\* ------------------------------------------------------------ Allocate
\* A rounding that also steps up from an exact power of two.
AllocateMaxTiles_Strict(maxTilesArg) == NextPowerOfTwo(maxTilesArg + 1)

\* maxTiles = NextPowerOfTwo(maxTiles);
AllocateMaxTiles(maxTilesArg) == NextPowerOfTwo(maxTilesArg)

\* oom: which allocation returns null ("none", "nav", "cache"); ubPolys:
\* the value the build gives 1u << (22 - tileBits) when tileBits > 22.
Allocate(m, box, maxTilesArg, oom, ubPolys) ==
    LET m0 == release_navigation_mesh(m)
        maxTiles == AllocateMaxTiles(maxTilesArg)
        tileBits == LogBaseTwo(maxTiles)
        maxPolys == IF tileBits <= RefBits THEN Pow2(RefBits - tileBits) ELSE ubPolys
        m1 == [m0 EXCEPT !.box = box, !.nx = GridTiles(box.w), !.nz = GridTiles(box.h)]
        m2 == [m1 EXCEPT !.nav = NavInit(maxTiles, maxPolys)]
        m3 == [m2 EXCEPT !.cache = CacheInit(maxTiles * m.maxLayers, maxObstacles_)]
        m4 == AddObstacles(m3, DOMAIN m.ids)
    IN  IF ~m.node THEN [m0 EXCEPT !.ret = "false"]
        ELSE IF oom = "nav" THEN Fail(m1, "error: Could not allocate navigation mesh")
        ELSE IF ~NavInitOK(maxTiles, maxPolys)
        THEN Fail(release_navigation_mesh(m1), "error: Could not initialize navigation mesh")
        ELSE IF oom = "cache"
        THEN Fail(release_navigation_mesh(m2), "error: Could not allocate tile cache")
        ELSE IF ~CacheInitOK(maxTiles * m.maxLayers)
        THEN Fail(release_navigation_mesh(m2), "error: Could not initialize tile cache")
        ELSE [m4 EXCEPT !.ret = "true",
                        !.ev = Append(@, Ev("E_NAVIGATION_MESH_REBUILT", 0, 0))]

\* --------------------------------------------------------------- Build
\* A build that reports failure when it finds no geometry.
BuildNothingToDo_False(m0) == [m0 EXCEPT !.ret = "false"]

\* if (geometryList.Empty()) return true;
BuildNothingToDo(m0) == [m0 EXCEPT !.ret = "true"]

\* A polygon budget of one bit less.
MaxPolys_Halved(tileBits) == IF tileBits < RefBits THEN Pow2(RefBits - tileBits - 1) ELSE 1

\* unsigned maxPolys = 1u << (22 - tileBits);
MaxPolys(tileBits) == Pow2(RefBits - tileBits)

Build(m, scene, oom) ==
    LET m0 == release_navigation_mesh(m)
        nx == GridTiles(scene.w)
        nz == GridTiles(scene.h)
        maxTiles == NextPowerOfTwo(nx * nz) * m.maxLayers
        tileBits == LogBaseTwo(maxTiles)
        maxPolys == MaxPolys(tileBits)
        m1 == [m0 EXCEPT !.box = [w |-> scene.w, h |-> scene.h], !.nx = nx, !.nz = nz]
        m2 == [m1 EXCEPT !.nav = NavInit(maxTiles, maxPolys)]
        m3 == [m2 EXCEPT !.cache = CacheInit(nx * nz * m.maxLayers, maxObstacles_)]
        rebuilt(m5) ==
            AddObstacles([m5 EXCEPT !.ev = Append(@, Ev("E_NAVIGATION_MESH_REBUILT", 0, 0))],
                         DOMAIN m.ids)
        finished(m4) ==
            IF m4.crashed THEN m4 ELSE [rebuilt(UpdateCache(m4)) EXCEPT !.ret = "true"]
    IN  IF ~m.node THEN [m0 EXCEPT !.ret = "false"]
        ELSE IF scene.empty THEN BuildNothingToDo(m0)
        ELSE IF oom = "nav" THEN Fail(m1, "error: Could not allocate navigation mesh")
        ELSE IF ~NavInitOK(maxTiles, maxPolys)
        THEN Fail(release_navigation_mesh(m1), "error: Could not initialize navigation mesh")
        ELSE IF oom = "cache"
        THEN Fail(release_navigation_mesh(m2), "error: Could not allocate tile cache")
        ELSE IF ~CacheInitOK(nx * nz * m.maxLayers)
        THEN Fail(release_navigation_mesh(m2), "error: Could not initialize tile cache")
        ELSE finished(BuildAllLoop(m3, scene, RowMajor(0, 0, nx - 1, nz - 1)))

\* ------------------------------------------------------ partial builds
\* Build(boundingBox): raw holds the four tile indices the box converts to
\* before clamping, <<sx, sz, ex, ez>>.
BuildBox(m, scene, raw) ==
    LET sx == Clamp(raw[1], 0, m.nx - 1)
        sz == Clamp(raw[2], 0, m.nz - 1)
        ex == Clamp(raw[3], 0, m.nx - 1)
        ez == Clamp(raw[4], 0, m.nz - 1)
    IN  IF ~m.node THEN [m EXCEPT !.ret = "false"]
        ELSE IF ~m.nav.alloc
        THEN Fail(m, "error: Navigation mesh must first be built fully")
        ELSE [build_tiles(m, scene, <<sx, sz>>, <<ex, ez>>) EXCEPT !.ret = "true"]

\* A Build(from, to) that does not look for the node.
BuildRange_NoNodeCheck(m, scene, from, to) ==
    IF ~m.nav.alloc
    THEN Fail(m, "error: Navigation mesh must first be built fully")
    ELSE [build_tiles(m, scene, from, to) EXCEPT !.ret = "true"]

\* Build(from, to).
BuildRange(m, scene, from, to) ==
    IF ~m.node THEN [m EXCEPT !.ret = "false"]
    ELSE IF ~m.nav.alloc
    THEN Fail(m, "error: Navigation mesh must first be built fully")
    ELSE [build_tiles(m, scene, from, to) EXCEPT !.ret = "true"]

\* -------------------------------------------------------- serialization
\* A byte buffer is the sequence of the items written to it.  A snapshot
\* starts with one item for the fixed part (box, grid, both parameter
\* structs) and continues with tile records; tile data is tile records only.
TileRecord(t) ==
    [header |-> [tx |-> t.tx, ty |-> t.ty, tlayer |-> t.tlayer],
     data |-> Blob(t.tx, t.ty, t.tlayer, t.data)]

RECURSIVE WriteRefs(_, _)
WriteRefs(c, refs) ==
    IF refs = <<>> THEN <<>>
    ELSE LET at == CacheTileBySlot(c, Head(refs) % Pow2(c.tileBits))
         IN  (IF at = {} THEN <<>> ELSE <<TileRecord(CHOOSE t \in at : TRUE)>>)
             \o WriteRefs(c, Tail(refs))

\* WriteTiles(dest, x, z): the tiles getTilesAt returns for (x, z), at most
\* maxLayers_ of them.
WriteTiles(c, x, z, maxLayers) == WriteRefs(c, CacheGetTilesAt(c, x, z, maxLayers))

RECURSIVE WriteAllTiles(_, _, _)
WriteAllTiles(c, coords, maxLayers) ==
    IF coords = <<>> THEN <<>>
    ELSE WriteTiles(c, Head(coords)[1], Head(coords)[2], maxLayers)
         \o WriteAllTiles(c, Tail(coords), maxLayers)

GetNavigationDataAttr(m) ==
    IF m.nav.alloc /\ m.cache.alloc
    THEN <<[box |-> m.box, nx |-> m.nx, nz |-> m.nz,
            navParams |-> [maxTiles |-> m.nav.maxTiles, maxPolys |-> m.nav.maxPolys],
            tcParams |-> [maxTiles |-> m.cache.maxTiles,
                          maxObstacles |-> m.cache.maxObstacles]]>>
         \o WriteAllTiles(m.cache, RowMajor(0, 0, m.nx - 1, m.nz - 1), m.maxLayers)
    ELSE <<>>

RECURSIVE ReadLoop(_, _, _)
\* The reading loop of ReadTiles: every record's data is added to the cache;
\* a failed add ends the loop; tileQueue_ gets each coordinate that differs
\* from the one queued last.
ReadLoop(c, recs, queue) ==
    IF recs = <<>> THEN [ok |-> TRUE, cache |-> c, queue |-> queue, rest |-> <<>>]
    ELSE LET rec == Head(recs)
             r == CacheAddTile(c, rec.data)
             idx == <<rec.header.tx, rec.header.ty>>
         IN  IF ~r.ok THEN [ok |-> FALSE, cache |-> c, queue |-> queue, rest |-> recs]
             ELSE ReadLoop(r.cache, Tail(recs),
                           IF queue = <<>> \/ queue[Len(queue)] # idx
                           THEN Append(queue, idx) ELSE queue)

RECURSIVE BuildQueue(_, _, _)
BuildQueue(c, n, queue) ==
    IF queue = <<>> THEN n
    ELSE BuildQueue(c, CacheBuildNavMeshTilesAt(c, n, Head(queue)[1], Head(queue)[2]),
                    Tail(queue))

\* ReadTiles(source, silent).
ReadTiles(m, recs, silent) ==
    LET announced(m2, queue) ==
            [m2 EXCEPT !.ret = "true",
                       !.ev = IF silent THEN @
                              ELSE @ \o [i \in 1..Len(queue) |->
                                           Ev("E_NAVIGATION_TILE_ADDED",
                                              queue[i][1], queue[i][2])]]
        call(name, rec) == <<name, rec.header.tx, rec.header.ty, rec.header.tlayer>>
        \* the first n records were allocated and added
        reads(n) == [i \in 1..(2 * n) |->
                        IF i % 2 = 1 THEN call("alloc", recs[(i + 1) \div 2])
                        ELSE call("addTile", recs[i \div 2])]
        read(l) ==
            IF ~l.ok
            THEN Fail([m EXCEPT !.cache = l.cache,
                                !.calls = @ \o reads(Len(recs) - Len(l.rest))
                                            \o <<call("alloc", Head(l.rest)),
                                                 call("free", Head(l.rest))>>],
                      "error: Failed to add tile")
            ELSE announced(UpdateCache(
                    [m EXCEPT !.cache = l.cache,
                              !.nav = BuildQueue(l.cache, m.nav, l.queue),
                              !.calls = @ \o reads(Len(recs))
                                          \o [i \in 1..Len(l.queue) |->
                                                <<"buildNavMeshTilesAt", l.queue[i][1],
                                                  l.queue[i][2], 0>>]]),
                           l.queue)
    IN  IF ~m.cache.alloc THEN [m EXCEPT !.crashed = TRUE]
        ELSE read(ReadLoop(m.cache, recs, <<>>))

SetNavigationDataAttr(m, value, oom) ==
    LET m0 == release_navigation_mesh(m)
        head == value[1]
        m1 == [m0 EXCEPT !.box = head.box, !.nx = head.nx, !.nz = head.nz]
        m2 == [m1 EXCEPT !.nav = NavInit(head.navParams.maxTiles, head.navParams.maxPolys)]
        m3 == [m2 EXCEPT !.cache = CacheInit(head.tcParams.maxTiles,
                                             head.tcParams.maxObstacles)]
        voided(r) == [r EXCEPT !.ret = "void"]
    IN  IF value = <<>> THEN m0
        ELSE IF oom = "nav"
        THEN voided(Fail(m1, "error: Could not allocate navigation mesh"))
        ELSE IF ~NavInitOK(head.navParams.maxTiles, head.navParams.maxPolys)
        THEN voided(Fail(release_navigation_mesh(m1),
                         "error: Could not initialize navigation mesh"))
        ELSE IF oom = "cache"
        THEN voided(Fail(release_navigation_mesh(m2), "error: Could not allocate tile cache"))
        ELSE IF ~CacheInitOK(head.tcParams.maxTiles)
        THEN voided(Fail(release_navigation_mesh(m2),
                         "error: Could not initialize tile cache"))
        ELSE voided(ReadTiles(m3, Tail(value), TRUE))

AddTile(m, tileData) == ReadTiles(m, tileData, FALSE)

GetTileData(m, tile) ==
    IF ~m.cache.alloc THEN [m EXCEPT !.crashed = TRUE]
    ELSE [m EXCEPT !.out = WriteTiles(m.cache, tile[1], tile[2], m.maxLayers)]

\* ----------------------------------------------------- removing tiles
RECURSIVE NavRemoveSlots(_, _)
\* removeTile for the navmesh tiles of the given slots, in slot order.
NavRemoveSlots(n, slots) ==
    IF slots = {} THEN n
    ELSE LET i == CHOOSE i \in slots : \A j \in slots : i <= j
             t == CHOOSE t \in n.tiles : t.slot = i
         IN  NavRemoveSlots(NavRemoveAt(n, t.x, t.z, t.layer), slots \ {i})

\* NavigationMesh::RemoveTile: the coordinate's polygon tiles leave the
\* navmesh and the removal is announced.
NavigationMesh_RemoveTile(m, tile) ==
    LET at == {t.slot : t \in {u \in m.nav.tiles : u.x = tile[1] /\ u.z = tile[2]}}
    IN  IF at = {} THEN m
        ELSE [m EXCEPT !.nav = NavRemoveSlots(m.nav, at),
                       !.ev = Append(@, Ev("E_NAVIGATION_TILE_REMOVED", tile[1], tile[2]))]

\* NavigationMesh::RemoveAllTiles.
NavigationMesh_RemoveAllTiles(m) ==
    [m EXCEPT !.nav = NavRemoveSlots(m.nav, {t.slot : t \in m.nav.tiles}),
              !.ev = Append(@, Ev("E_NAVIGATION_ALL_TILES_REMOVED", 0, 0))]

RemoveTile(m, tile) ==
    IF ~m.nav.alloc THEN m
    ELSE IF ~m.cache.alloc THEN [m EXCEPT !.crashed = TRUE]
    ELSE NavigationMesh_RemoveTile(
             [m EXCEPT !.cache = RemoveRefs(m.cache,
                  CacheGetTilesAt(m.cache, tile[1], tile[2], m.maxLayers))], tile)

RECURSIVE CacheRemoveSlots(_, _)
\* The loop over getTile(i), i = 0 .. getTileCount() - 1: every slot that
\* holds a tile is removed, in slot order.
CacheRemoveSlots(c, slots) ==
    IF slots = {} THEN c
    ELSE LET i == CHOOSE i \in slots : \A j \in slots : i <= j
         IN  CacheRemoveSlots(CacheRemoveTile(c, CacheTileRef(c, i)), slots \ {i})

RemoveAllTiles(m) ==
    IF ~m.cache.alloc THEN [m EXCEPT !.crashed = TRUE]
    ELSE NavigationMesh_RemoveAllTiles(
             [m EXCEPT !.cache = CacheRemoveSlots(m.cache,
                                    {t.slot : t \in SeqToSet(m.cache.tiles)})])

\* ------------------------------------------------------------- the rest
SetMaxLayers(m, maxLayers) ==
    [m EXCEPT !.maxLayers = Max(MinLayers, Min(maxLayers, TILECACHE_MAXLAYERS))]

\* A tick handler that does not ask whether the component is enabled.
HandleSceneSubsystemUpdate_IgnoresEnabled(m, enabled) ==
    IF m.cache.alloc /\ m.nav.alloc THEN UpdateCache(m) ELSE m

\* HandleSceneSubsystemUpdate: the per-tick update of the cache.
HandleSceneSubsystemUpdate(m, enabled) ==
    IF m.cache.alloc /\ m.nav.alloc /\ enabled THEN UpdateCache(m) ELSE m

\* ===================================================================
\*                     the state machine
\* ===================================================================
\* ------------------------------------------------------------- inputs
OneTile == TileSize
TwoTiles == TileSize + 1

Kinds == {"none", "flat", "stack", "broken", "badlayer"}

Scene(w, k00, k10) ==
    [empty |-> FALSE, w |-> w, h |-> OneTile,
     kind |-> (<<0, 0>> :> k00 @@ <<1, 0>> :> k10)]

\* A scene of two rows of two tiles.
Scene4(k00, k10, k01, k11) ==
    [empty |-> FALSE, w |-> TwoTiles, h |-> TwoTiles,
     kind |-> (<<0, 0>> :> k00 @@ <<1, 0>> :> k10 @@ <<0, 1>> :> k01 @@ <<1, 1>> :> k11)]

EmptyScene == [empty |-> TRUE, w |-> 0, h |-> 0, kind |-> <<>>]

\* Scenes a full build meets: the box is the padded union of the geometry.
FullScenes ==
    {EmptyScene, Scene(OneTile, "flat", "none"), Scene(OneTile, "stack", "none"),
     Scene(TwoTiles, "flat", "flat"), Scene(TwoTiles, "flat", "none")}

\* Scenes a partial build meets: any geometry, whatever the box was.
PartialScenes == {Scene(TwoTiles, a, b) : a \in Kinds, b \in Kinds}

Boxes == {[w |-> OneTile, h |-> OneTile], [w |-> TwoTiles, h |-> OneTile]}
MaxTilesArgs == {1, 3, 5, Pow2(17), Pow2(17) + 1, Pow2(RefBits) + 1}
Ooms == {"none", "nav", "cache"}
UBPolys == {0, 1}

Tiles == {<<0, 0>>, <<1, 0>>}
Ranges == {<<<<0, 0>>, <<0, 0>>>>, <<<<1, 0>>, <<1, 0>>>>,
           <<<<0, 0>>, <<1, 0>>>>, <<<<-1, 0>>, <<0, 0>>>>}
RawBoxes == {<<0, 0, 0, 0>>, <<1, 0, 1, 0>>, <<-1, 0, 2, 0>>}
LayerArgs == {0, DEFAULT_MAX_LAYERS, 1000}

TileDatas ==
    {<<>>} \cup {<<TileRecord(Blob(t[1], t[2], 0, "flat"))>> : t \in Tiles}

\* A freshly constructed instance attached to a node.
Fresh ==
    [node |-> TRUE, maxLayers |-> DEFAULT_MAX_LAYERS, box |-> ZeroBox,
     nx |-> 0, nz |-> 0, nav |-> NullNav, cache |-> NullCache,
     ids |-> <<>>, crashed |-> FALSE, ret |-> "void", out |-> <<>>,
     ev |-> <<>>, upd |-> 0, drained |-> FALSE, spin |-> 0, built |-> <<>>,
     calls |-> <<>>]

\* Snapshots saved from other instances after a full build.
Snapshots ==
    {<<>>} \cup {GetNavigationDataAttr(Build(Fresh, sc, "none")) :
                    sc \in {Scene(OneTile, "flat", "none"), Scene(TwoTiles, "flat", "flat")}}

Obstacles == {1, 2}

\* ---------------------------------------------------------------- Init
\* ---- off-mesh connections ----

\* MeshProcess as constructed: the arrays of connection data are empty.
\* One entry of offMesh stands for the entries of the five arrays
\* (vertices, radii, flags, areas, directions) of one connection.
MeshProcess == [offMesh |-> <<>>]

ClearConnectionData(proc) == [proc EXCEPT !.offMesh = <<>>]

\* What process() copies from an OffMeshConnection component: the two
\* positions in the mesh's space and radius, mask, area and direction (id).
ConnectionData(connection) ==
    [start |-> connection.start, end |-> connection.end, id |-> connection.id]

\* The connections of the subtree that are enabled and have an end point;
\* the bounds are not looked at.
CollectOffMeshConnections(connections, bounds) ==
    SelectSeq(connections, LAMBDA c : c.enabled /\ c.hasEnd)

\* MeshProcess::process for a layer whose bounds start at bmin: the arrays
\* are filled again only when the number of connections found differs from
\* the number kept, and handed to the cache when any connection was found.
process(proc, connections, bmin) ==
    LET bounds == [min |-> bmin, max |-> bmin]
        filled(cs) ==
            [ClearConnectionData(proc) EXCEPT
                !.offMesh = [i \in 1..Len(cs) |-> ConnectionData(cs[i])]]
        kept(cs) == IF Len(cs) # Len(proc.offMesh) THEN filled(cs) ELSE proc
        published(p) == [proc |-> p, params |-> p.offMesh]
        collected(cs) ==
            IF Len(cs) > 0 THEN published(kept(cs))
            ELSE [proc |-> proc, params |-> <<>>]
    IN  collected(CollectOffMeshConnections(connections, bounds))

\* ---- the linear allocator ----
\* A size_t value is written as an integer: n >= 0 for n itself and n < 0
\* for 2^w + n, w the width of size_t; sums of such values are then sums
\* of the integers.

\* LinearAllocator(cap): resize(cap) on the empty allocator; dtAlloc gives
\* the buffer or null.
LinearAllocator(cap, allocated) ==
    [buffer |-> allocated, capacity |-> cap, top |-> 0, high |-> 0]

\* top + size > capacity, compared as size_t.
ExceedsCapacity(sum, capacity) == sum < 0 \/ sum > capacity

\* alloc(size): null without buffer or without room, else the block at top.
alloc(a, size) ==
    IF ~a.buffer THEN [a |-> a, null |-> TRUE, mem |-> 0]
    ELSE IF ExceedsCapacity(a.top + size, a.capacity) THEN [a |-> a, null |-> TRUE, mem |-> 0]
    ELSE [a |-> [a EXCEPT !.top = a.top + size], null |-> FALSE, mem |-> a.top]

\* free(ptr)
free(a, ptr) == a

\* reset()
reset(a) == [a EXCEPT !.high = Max(a.high, a.top), !.top = 0]

\* The component as constructed, without its allocator.
InitComponent ==
    /\ node_ \in BOOLEAN
    /\ enabled_ = TRUE
    /\ maxLayers_ = DEFAULT_MAX_LAYERS
    /\ boundingBox_ = ZeroBox
    /\ numTilesX_ = 0
    /\ numTilesZ_ = 0
    /\ navMesh_ = NullNav
    /\ tileCache_ = NullCache
    /\ obstacleId_ \in {[o \in os |-> 0] : os \in {{}, {1}, Obstacles}}
    /\ crashed = FALSE
    /\ meshProcessor_ = MeshProcess
    /\ op = [name |-> "new", arg |-> <<>>, ret |-> "void", out |-> <<>>, ev |-> <<>>,
             upd |-> 0, drained |-> FALSE, spin |-> 0, built |-> <<>>, calls |-> <<>>]

Init == InitComponent /\ allocator_ = LinearAllocator(InitialCapacity, TRUE)

\* ------------------------------------------------------------- actions
SaltsOK(m) ==
    /\ \A i \in 1..Len(m.nav.salt) : m.nav.salt[i] <= MaxSalt
    /\ \A i \in 1..Len(m.cache.salt) : m.cache.salt[i] <= MaxSalt
    /\ \A i \in 1..Len(m.cache.obs) : m.cache.obs[i].salt <= MaxSalt

\* The operation named name, called with arg on the current state, ends in m.
Do(m, name, arg) ==
    /\ ~crashed
    /\ SaltsOK(m)
    /\ maxLayers_' = m.maxLayers
    /\ boundingBox_' = m.box
    /\ numTilesX_' = m.nx
    /\ numTilesZ_' = m.nz
    /\ navMesh_' = m.nav
    /\ tileCache_' = m.cache
    /\ obstacleId_' = m.ids
    /\ crashed' = m.crashed
    /\ op' = [name |-> name, arg |-> arg, ret |-> m.ret, out |-> m.out, ev |-> m.ev,
              upd |-> m.upd, drained |-> m.drained, spin |-> m.spin, built |-> m.built,
              calls |-> m.calls]
    /\ UNCHANGED <<node_, enabled_, meshProcessor_, allocator_>>

CallAllocate(boxes, args, ooms) ==
    \E box \in boxes, n \in args, oom \in ooms, ub \in UBPolys :
        /\ ub = 0 \/ LogBaseTwo(NextPowerOfTwo(n)) > RefBits
        /\ Do(Allocate(Cur, box, n, oom, ub), "Allocate", <<n>>)

CallBuild(scenes, ooms) ==
    \E scene \in scenes, oom \in ooms :
        Do(Build(Cur, scene, oom), "Build", <<scene>>)

CallBuildBox(scenes, raws) ==
    \E scene \in scenes, raw \in raws :
        Do(BuildBox(Cur, scene, raw), "BuildBox", raw \o <<scene>>)

CallBuildRange(scenes, ranges) ==
    \E scene \in scenes, r \in ranges :
        Do(BuildRange(Cur, scene, r[1], r[2]), "BuildRange", r[1] \o r[2] \o <<scene>>)

CallGetTileData ==
    \E t \in Tiles : Do(GetTileData(Cur, t), "GetTileData", t)

CallAddTile(datas) ==
    \E d \in datas : Do(AddTile(Cur, d), "AddTile", <<>>)

CallRemoveTile ==
    \E t \in Tiles : Do(RemoveTile(Cur, t), "RemoveTile", t)

CallRemoveAllTiles == Do(RemoveAllTiles(Cur), "RemoveAllTiles", <<>>)

CallSetNavigationDataAttr(values, ooms) ==
    \E v \in values, oom \in ooms :
        Do(SetNavigationDataAttr(Cur, v, oom), "SetNavigationDataAttr", <<>>)

CallSetMaxLayers ==
    \E n \in LayerArgs : Do(SetMaxLayers(Cur, n), "SetMaxLayers", <<n>>)

CallAddObstacle ==
    \E o \in DOMAIN obstacleId_ : Do(AddObstacle(Cur, o, FALSE), "AddObstacle", <<o>>)

CallRemoveObstacle ==
    \E o \in DOMAIN obstacleId_ : Do(RemoveObstacle(Cur, o, FALSE), "RemoveObstacle", <<o>>)

CallObstacleChanged ==
    \E o \in DOMAIN obstacleId_ : Do(ObstacleChanged(Cur, o), "ObstacleChanged", <<o>>)

\* The scene's subsystem update event, once per tick.
Tick == Do(HandleSceneSubsystemUpdate(Cur, enabled_), "HandleSceneSubsystemUpdate", <<>>)

\* The component (or its node) is enabled or disabled.
SetEnabled ==
    /\ ~crashed
    /\ enabled_' = ~enabled_
    /\ op' = [name |-> "SetEnabled", arg |-> <<>>, ret |-> "void", out |-> <<>>,
              ev |-> <<>>, upd |-> 0, drained |-> FALSE, spin |-> 0, built |-> <<>>,
              calls |-> <<>>]
    /\ UNCHANGED <<node_, maxLayers_, boundingBox_, numTilesX_, numTilesZ_,
                   navMesh_, tileCache_, obstacleId_, crashed, meshProcessor_, allocator_>>

Next ==
    \/ CallAllocate(Boxes, MaxTilesArgs, Ooms)
    \/ CallBuild(FullScenes, Ooms)
    \/ CallBuildBox(PartialScenes, RawBoxes)
    \/ CallBuildRange(PartialScenes, Ranges)
    \/ CallGetTileData
    \/ CallAddTile(TileDatas)
    \/ CallRemoveTile
    \/ CallRemoveAllTiles
    \/ CallSetNavigationDataAttr(Snapshots, Ooms)
    \/ CallSetMaxLayers
    \/ CallAddObstacle
    \/ CallRemoveObstacle
    \/ CallObstacleChanged
    \/ Tick
    \/ SetEnabled

Spec == Init /\ [][Next]_vars

\* ===================================================================
\*        restrictions of Spec to some operations and inputs
\* ===================================================================
\* Every behaviour of the specifications below is a behaviour of Spec.
NoObstacles == obstacleId_ = <<>>
WideBox == [w |-> TwoTiles, h |-> OneTile]
TileA == <<<<0, 0>>, <<0, 0>>>>
TileB == <<<<1, 0>>, <<1, 0>>>>
FlatA == Scene(TwoTiles, "flat", "none")
Bare == Scene(TwoTiles, "none", "none")

\* Allocate with every argument, after any SetMaxLayers.
NextAllocate ==
    \/ CallAllocate(Boxes, MaxTilesArgs, Ooms)
    \/ CallSetMaxLayers

SpecAllocate == Init /\ [][NextAllocate]_vars

\* The builds and the snapshot load, with and without a node.
InitGuards == Init /\ NoObstacles

NextGuards ==
    \/ CallAllocate({WideBox}, {3}, Ooms)
    \/ CallBuild(FullScenes, Ooms)
    \/ CallBuildBox({FlatA}, {<<0, 0, 0, 0>>})
    \/ CallBuildRange({FlatA}, {TileA})
    \/ CallSetNavigationDataAttr(Snapshots, {"none"})
    \/ CallSetMaxLayers

SpecGuards == InitGuards /\ [][NextGuards]_vars

\* Tiles built, rebuilt, added and removed on a component with a node.
InitTiles == Init /\ node_ /\ NoObstacles

NextTiles ==
    \/ CallBuild({Scene(TwoTiles, "stack", "none"), Scene(TwoTiles, "flat", "flat")}, {"none"})
    \/ CallBuildBox({FlatA, Bare}, {<<-1, 0, 2, 0>>})
    \/ CallBuildRange({FlatA, Bare}, {TileA, <<<<-1, 0>>, <<0, 0>>>>})
    \/ CallAddTile(TileDatas)
    \/ CallRemoveTile
    \/ CallRemoveAllTiles
    \/ CallSetMaxLayers

SpecTiles == InitTiles /\ [][NextTiles]_vars

\* Single tiles rebuilt again and again in a mesh allocated for a large
\* world.
NextRebuild ==
    \/ CallAllocate({WideBox}, {Pow2(17), Pow2(17) + 1}, {"none"})
    \/ CallBuildRange({Scene(TwoTiles, a, b) : a, b \in {"none", "flat"}}, {TileA, TileB})
    \/ CallRemoveTile

SpecRebuild == InitTiles /\ [][NextRebuild]_vars

\* Obstacles added, removed and moved between ticks.
InitObstacles == Init /\ node_ /\ DOMAIN obstacleId_ = {1}

NextObstacles ==
    \/ CallBuild({Scene(OneTile, "stack", "none")}, {"none"})
    \/ CallAllocate({WideBox}, {3}, {"none"})
    \/ CallBuildRange({FlatA}, {TileA})
    \/ CallAddTile({<<>>})
    \/ CallSetNavigationDataAttr(Snapshots, {"none"})
    \/ CallAddObstacle
    \/ CallRemoveObstacle
    \/ CallObstacleChanged
    \/ Tick
    \/ SetEnabled

SpecObstacles == InitObstacles /\ [][NextObstacles]_vars

\* The cache turns the layer blob of tile t into navmesh polygons while the
\* subtree holds the given off-mesh connections: it calls process() with the
\* layer's bounds and takes the connections from the parameters.
CallProcess(scenes, ts) ==
    \E connections \in scenes, t \in ts :
        /\ ~crashed /\ node_ /\ tileCache_.alloc
        /\ \E b \in SeqToSet(tileCache_.tiles) : <<b.tx, b.ty>> = t
        /\ LET done(r) ==
                /\ meshProcessor_' = r.proc
                /\ op' = [name |-> "process", arg |-> <<connections, t>>, ret |-> "void",
                          out |-> r.params, ev |-> <<>>, upd |-> 0, drained |-> FALSE,
                          spin |-> 0, built |-> <<>>, calls |-> <<>>]
           IN  done(process(meshProcessor_, connections, t))
        /\ UNCHANGED <<node_, enabled_, maxLayers_, boundingBox_, numTilesX_, numTilesZ_,
                       navMesh_, tileCache_, obstacleId_, crashed, allocator_>>

\* Off-mesh connection components: within tile (0,0), within tile (1,0),
\* from one to the other, a disabled one and one without end point.
Connections ==
    { [id |-> 1, start |-> <<0, 0>>, end |-> <<0, 0>>, enabled |-> TRUE, hasEnd |-> TRUE],
      [id |-> 2, start |-> <<1, 0>>, end |-> <<1, 0>>, enabled |-> TRUE, hasEnd |-> TRUE],
      [id |-> 3, start |-> <<0, 0>>, end |-> <<1, 0>>, enabled |-> TRUE, hasEnd |-> TRUE],
      [id |-> 4, start |-> <<0, 0>>, end |-> <<0, 0>>, enabled |-> FALSE, hasEnd |-> TRUE],
      [id |-> 5, start |-> <<1, 0>>, end |-> <<1, 0>>, enabled |-> TRUE, hasEnd |-> FALSE] }

ConnectionLists ==
    {<<>>} \cup {<<c>> : c \in Connections} \cup {<<c, d>> : c, d \in Connections}

NextOffMesh ==
    \/ CallBuild({Scene(TwoTiles, "flat", "flat")}, {"none"})
    \/ CallProcess(ConnectionLists, {<<0, 0>>, <<1, 0>>})

SpecOffMesh == InitTiles /\ [][NextOffMesh]_vars

\* The calls Detour makes on the allocator.  op.out holds the blocks handed
\* out since the last reset, each with its start and its size.
AllocatorOp(name, arg, ret, blocks) ==
    op' = [name |-> name, arg |-> arg, ret |-> ret, out |-> blocks, ev |-> <<>>,
           upd |-> 0, drained |-> FALSE, spin |-> 0, built |-> <<>>, calls |-> <<>>]

AllocatorOnly ==
    UNCHANGED <<node_, enabled_, maxLayers_, boundingBox_, numTilesX_, numTilesZ_,
                navMesh_, tileCache_, obstacleId_, crashed, meshProcessor_>>

CallAlloc(sizes) ==
    \E size \in sizes :
        /\ Len(op.out) < MaxBlocks
        /\ LET done(r) ==
                /\ allocator_' = r.a
                /\ AllocatorOp("alloc", <<size>>, IF r.null THEN "null" ELSE "block",
                               IF r.null THEN op.out
                               ELSE Append(op.out, [start |-> r.mem, size |-> size]))
           IN  done(alloc(allocator_, size))
        /\ AllocatorOnly

CallFree ==
    \E i \in 1..Len(op.out) :
        /\ allocator_' = free(allocator_, op.out[i].start)
        /\ AllocatorOp("free", <<op.out[i].start>>, "void", op.out)
        /\ AllocatorOnly

CallReset ==
    /\ allocator_' = reset(allocator_)
    /\ AllocatorOp("reset", <<>>, "void", <<>>)
    /\ AllocatorOnly

\* Sizes asked of alloc: nothing, a byte, parts of the buffer, all of it,
\* more than it, and the largest size_t.
AllocSizes == {0, 1, 8000, 24000, InitialCapacity, InitialCapacity + 1, -1}

InitAllocator ==
    /\ InitComponent /\ node_ /\ NoObstacles
    /\ allocator_ \in {LinearAllocator(InitialCapacity, b) : b \in BOOLEAN}

NextAllocator ==
    \/ CallAlloc(AllocSizes)
    \/ CallFree
    \/ CallReset

SpecAllocator == InitAllocator /\ [][NextAllocator]_vars

\* Full and partial builds of a 2 x 2 grid whose tiles may fail, and tile
\* data of two layers added to it.
TopRow == <<<<0, 0>>, <<1, 0>>>>

TwoLayers == [i \in 1..2 |-> TileRecord(Blob(0, 0, i - 1, "stack"))]

\* Tile data in which the record of layer 1 comes twice.
RepeatedLayer == [i \in 1..3 |-> TileRecord(Blob(0, 0, IF i = 1 THEN 0 ELSE 1, "stack"))]

NextPipeline ==
    \/ CallBuild({Scene4(a, b, "flat", "flat") : a, b \in Kinds}, {"none"})
    \/ CallBuildRange({Scene4(a, "flat", "flat", "flat") : a \in {"stack", "badlayer"}},
                      {TileA, TopRow})
    \/ CallAddTile({TwoLayers, RepeatedLayer})

SpecPipeline == InitTiles /\ [][NextPipeline]_vars

\* ===================================================================
\*                            the claims
\* ===================================================================
Logged(text) == Ev(text, 0, 0) \in SeqToSet(op.ev)

BuildErrors ==
    {"error: Could not allocate navigation mesh",
     "error: Could not initialize navigation mesh",
     "error: Could not allocate tile cache",
     "error: Could not initialize tile cache"}

MeshState == <<navMesh_, tileCache_, boundingBox_, numTilesX_, numTilesZ_>>

Released ==
    /\ navMesh_ = NullNav /\ tileCache_ = NullCache
    /\ boundingBox_ = ZeroBox /\ numTilesX_ = 0 /\ numTilesZ_ = 0

\* C1: after every Allocate(boundingBox, maxTiles) that succeeds, the
\* navmesh's maxTiles is the smallest power of two >= the requested maxTiles
\* and its maxPolys is 2^polyBits, where tileBits = log2(maxTiles) and
\* tileBits + polyBits = 22.
C1_AllocateRoundsAndSplitsBits ==
    (op.name = "Allocate" /\ op.ret = "true") =>
        \E tb \in 0..RefBits :
            /\ navMesh_.maxTiles = Pow2(tb)
            /\ Pow2(tb) >= op.arg[1]
            /\ tb = 0 \/ Pow2(tb - 1) < op.arg[1]
            /\ navMesh_.maxPolys = Pow2(RefBits - tb)
            /\ navMesh_.tileBits = tb
            /\ navMesh_.tileBits + navMesh_.polyBits = RefBits

\* An Allocate that had to round (5 tiles asked, 8 given) succeeded.
C1_Witness ==
    /\ op.name = "Allocate" /\ op.ret = "true"
    /\ op.arg[1] = 5 /\ navMesh_.maxTiles = 8

\* C4 as stated: Allocate, Build(), Build(boundingBox) and Build(from, to)
\* called without a node, and the two partial builds also when no mesh
\* exists, return false and leave navmesh, tile cache, bounding box and grid
\* dimensions as they were.
C4_PreconditionFailuresChangeNothing ==
    [][(\/ op'.name \in {"Allocate", "Build", "BuildBox", "BuildRange"} /\ ~node_
        \/ op'.name \in {"BuildBox", "BuildRange"} /\ ~navMesh_.alloc)
       => (op'.ret = "false" /\ MeshState' = MeshState)]_vars

\* C4: Build(boundingBox) and Build(from, to) called without a node or when
\* no mesh exists return false and leave navmesh, tile cache, bounding box
\* and grid dimensions as they were; Allocate and Build() called without a
\* node return false after releasing the navmesh and the tile cache and
\* zeroing the bounding box and the grid dimensions.
C4_PartialBuildsKeepFullBuildsRelease ==
    [][/\ (op'.name \in {"BuildBox", "BuildRange"} /\ (~node_ \/ ~navMesh_.alloc))
            => (op'.ret = "false" /\ MeshState' = MeshState)
       /\ (op'.name \in {"Allocate", "Build"} /\ ~node_)
            => (op'.ret = "false" /\ Released')]_vars

\* A partial build was refused for want of a node while a mesh exists.
C4_Witness ==
    /\ op.name = "BuildRange" /\ op.ret = "false"
    /\ ~node_ /\ navMesh_.alloc /\ tileCache_.tiles # <<>>

\* C5 as stated: Build() returns false only when there is no owning node;
\* in every other case, no geometry included, it returns true.
C5_BuildFalseOnlyWithoutNode ==
    op.name = "Build" => (op.ret = "false" <=> ~node_)

\* C5: Build() returns false when there is no owning node and when the
\* navmesh or the tile cache cannot be allocated or initialised, which it
\* logs as an error and which leaves no mesh; in every other case, no
\* geometry included, it returns true.
C5_BuildFalseWithoutNodeOrOnFailure ==
    op.name = "Build" =>
        /\ op.ret \in {"true", "false"}
        /\ ~node_ => op.ret = "false"
        /\ (node_ /\ op.ret = "false") =>
              /\ \E text \in BuildErrors : Logged(text)
              /\ ~navMesh_.alloc /\ ~tileCache_.alloc
        /\ op.ret = "true" => \A text \in BuildErrors : ~Logged(text)

\* Build() with a node failed because the navmesh would not initialise.
C5_Witness ==
    /\ op.name = "Build" /\ op.ret = "false" /\ node_
    /\ Logged("error: Could not initialize navigation mesh")

\* The compressed blobs of a cache: coordinate, layer and bytes.
Blobs(c) ==
    {[tx |-> t.tx, ty |-> t.ty, tlayer |-> t.tlayer, data |-> t.data] :
        t \in SeqToSet(c.tiles)}

\* The blobs of a cache outside the rectangle r = <<fromX, fromZ, toX, toZ>>
\* (the arguments of a partial build, which end with the scene's geometry).
BlobsOutside(c, r) ==
    {b \in Blobs(c) : ~(r[1] <= b.tx /\ b.tx <= r[3] /\ r[2] <= b.ty /\ b.ty <= r[4])}

\* C2: in every mesh state that Build, partial builds, AddTile, RemoveTile
\* and SetMaxLayers reach, GetNavigationDataAttr() followed by
\* SetNavigationDataAttr() on a fresh instance gives a cache with the same
\* tile coordinates and, per coordinate, the same layer blobs.
C2_SnapshotRoundTrip ==
    (navMesh_.alloc /\ tileCache_.alloc /\ ~crashed) =>
        Blobs(SetNavigationDataAttr(Fresh, GetNavigationDataAttr(Cur), "none").cache)
            = Blobs(tileCache_)

\* C3: Build(from, to) on a sub-rectangle of the grid never adds, removes or
\* changes a compressed blob at a coordinate outside the rectangle.
C3_PartialRebuildLocality ==
    [][op'.name = "BuildRange" =>
          BlobsOutside(tileCache_', op'.arg) = BlobsOutside(tileCache_, op'.arg)]_vars

\* C6: every tile coordinate a partial rebuild processes lies inside the
\* grid.
C6_PartialRebuildInsideGrid ==
    op.name \in {"BuildBox", "BuildRange"} =>
        \A i \in 1..Len(op.built) :
            /\ 0 <= op.built[i][1] /\ op.built[i][1] <= numTilesX_ - 1
            /\ 0 <= op.built[i][2] /\ op.built[i][2] <= numTilesZ_ - 1

\* C7: a tile coordinate has polygon data in the navmesh only if the cache
\* holds at least one compressed blob at that coordinate.
C7_NavTilesHaveBlobs ==
    \A t \in navMesh_.tiles :
        \E b \in Blobs(tileCache_) : b.tx = t.x /\ b.ty = t.z

\* C8 as stated: the cache's update step runs only from the per-tick
\* handler, and only while mesh and cache exist and the mesh is enabled.
C8_UpdateOnlyFromTick ==
    op.upd > 0 =>
        /\ op.name = "HandleSceneSubsystemUpdate"
        /\ enabled_ /\ navMesh_.alloc /\ tileCache_.alloc

\* C8: the per-tick handler runs the cache's update step once, and only
\* while mesh and cache exist and the mesh is enabled.  The step also runs
\* once at the end of a full Build() and of a successful AddTile or
\* SetNavigationDataAttr, and AddObstacle and RemoveObstacle (also inside
\* ObstacleChanged, Allocate and Build()) run it while the obstacle-request
\* queue is full.  A partial build never runs it.
C8_UpdateCallers ==
    /\ op.name = "HandleSceneSubsystemUpdate" =>
          op.upd = IF enabled_ /\ navMesh_.alloc /\ tileCache_.alloc THEN 1 ELSE 0
    /\ op.name \in {"BuildRange", "SetEnabled"} => op.upd = 0
    /\ op.name \in {"AddTile", "SetNavigationDataAttr"} =>
          op.upd = IF tileCache_.alloc /\ ~Logged("error: Failed to add tile") THEN 1 ELSE 0
    /\ op.name \in {"AddObstacle", "RemoveObstacle", "Allocate"} => op.upd = op.spin
    /\ op.name = "ObstacleChanged" => (op.upd > 0 => op.spin > 0)
    /\ op.name = "Build" =>
          op.upd = (IF tileCache_.alloc THEN 1 ELSE 0) + op.spin

\* AddTile drained queued obstacle requests into the navmesh.
C8_Witness ==
    op.name = "AddTile" /\ op.upd = 1 /\ op.drained

\* C9: the loop of AddObstacle and RemoveObstacle that steps the cache
\* while the request queue is full ends after at most MaxUpdate steps, and
\* leaves a queue with room.
C9_SpinLoopBounded ==
    /\ op.spin <= MaxUpdate
    /\ op.name \in {"AddObstacle", "RemoveObstacle", "ObstacleChanged"} =>
          Len(tileCache_.reqs) <= MaxRequests

\* AddObstacle met a full queue behind a pending tile and stepped the cache
\* MaxUpdate times.
C9_Witness ==
    op.name = "AddObstacle" /\ op.spin = MaxUpdate

\* C10: when AddObstacle fails to register the obstacle, the obstacle's
\* handle is zero after the call and no obstacle-added event is sent.
C10_FailedAddLeavesHandleZero ==
    (/\ op.name = "AddObstacle"
     /\ Ev("error: Failed to add obstacle", op.arg[1], 0) \in SeqToSet(op.ev)) =>
        /\ obstacleId_[op.arg[1]] = 0
        /\ Ev("E_NAVIGATION_OBSTACLE_ADDED", op.arg[1], 0) \notin SeqToSet(op.ev)

\* C11: AddObstacle, RemoveObstacle and the cache update steps between and
\* after them leave the compressed blobs of every tile coordinate as they
\* were, so the blobs after the removal equal the blobs before the add.
C11_ObstacleRoundTrip ==
    [][op'.name \in {"AddObstacle", "RemoveObstacle", "HandleSceneSubsystemUpdate"} =>
          Blobs(tileCache_') = Blobs(tileCache_)]_vars

\* An obstacle was added to a cache with tiles and removed again, and a tick
\* has drained the removal: its slot is free with a raised salt.
C11_Witness ==
    /\ op.name = "HandleSceneSubsystemUpdate" /\ op.drained
    /\ tileCache_.tiles # <<>>
    /\ obstacleId_[1] = 0
    /\ tileCache_.obs[1].state = "empty" /\ tileCache_.obs[1].salt > 1

\* C12: when Build(from, to) runs twice in a row on the same rectangle with
\* the same geometry and settings, the compressed blobs after the second run
\* (coordinates, layers, bytes) are those after the first run.
C12_PartialRebuildIdempotent ==
    [][(/\ op.name = "BuildRange" /\ op.ret = "true"
        /\ op'.name = "BuildRange" /\ op'.ret = "true" /\ ~crashed'
        /\ op'.arg = op.arg /\ maxLayers_' = maxLayers_)
       => Blobs(tileCache_') = Blobs(tileCache_)]_vars

\* The scene a build ran on: the last of its recorded arguments.
BuiltScene == op.arg[Len(op.arg)]

\* The tile records of a serialized buffer that belong to coordinate (x, z).
RecordsAt(buffer, x, z) ==
    {i \in 1..Len(buffer) :
        /\ "header" \in DOMAIN buffer[i]
        /\ buffer[i].header.tx = x /\ buffer[i].header.ty = z}

\* C13: after a build, a tile coordinate it processed that no geometry
\* overlaps has produced no layer (no area-rebuilt event), has no blob in the
\* cache, and has no record in what GetNavigationDataAttr and GetTileData
\* write.
C13_EmptyTilesOmitted ==
    (op.name \in {"Build", "BuildBox", "BuildRange"} /\ tileCache_.alloc /\ ~crashed) =>
        \A i \in 1..Len(op.built) :
            LET x == op.built[i][1]
                z == op.built[i][2]
            IN  SceneKind(BuiltScene, x, z) = "none" =>
                    /\ Ev("E_NAVIGATION_AREA_REBUILT", x, z) \notin SeqToSet(op.ev)
                    /\ \A b \in Blobs(tileCache_) : ~(b.tx = x /\ b.ty = z)
                    /\ RecordsAt(GetNavigationDataAttr(Cur), x, z) = {}
                    /\ GetTileData(Cur, <<x, z>>).out = <<>>

\* C14: a successful Build() that found geometry ends with one cache update
\* after the last tile, then the registration of the enabled obstacles, then
\* the mesh-rebuilt event: no obstacle is registered before the update, and
\* the event is sent after the obstacles were re-added.
C14_BuildEndsUpdateObstaclesEvent ==
    (op.name = "Build" /\ op.ret = "true" /\ ~BuiltScene.empty) =>
        /\ \E u \in 1..Len(op.calls) :
              /\ op.calls[u][1] = "update"
              /\ \A i \in 1..Len(op.calls) :
                    /\ op.calls[i][1] \in {"addTile", "buildNavMeshTilesAt"} => i < u
                    /\ op.calls[i][1] = "addObstacle" => i > u
        /\ \E i \in 1..Len(op.ev) :
              /\ op.ev[i][1] = "E_NAVIGATION_MESH_REBUILT"
              /\ \A j \in 1..Len(op.ev) :
                    op.ev[j][1] \in {"E_NAVIGATION_OBSTACLE_ADDED",
                                     "error: Failed to add obstacle"} => j < i

\* A call that merges blobs of coordinate (x, z) into the navmesh.
IsMerge(call, x, z) ==
    call[1] \in {"buildNavMeshTile", "buildNavMeshTilesAt"} /\ call[2] = x /\ call[3] = z

\* C15: in Build(), in the partial builds and in ReadTiles (AddTile,
\* SetNavigationDataAttr), no blob of a tile coordinate is inserted into the
\* cache after a navmesh merge of that coordinate was requested by the same
\* operation.
C15_MergeAfterAllLayers ==
    \A i, j \in 1..Len(op.calls) :
        (i < j /\ op.calls[j][1] = "addTile") =>
            ~IsMerge(op.calls[i], op.calls[j][2], op.calls[j][3])

\* The coordinates of a grid of nx by nz tiles, z outer, x inner.
ZOuterXInner(nx, nz) ==
    [k \in 1..(nx * nz) |-> <<(k - 1) % nx, (k - 1) \div nx>>]

\* C17: a Build() that got past the initialisation of mesh and cache has
\* called BuildTile once for every coordinate of the grid, z outer and x
\* inner, whatever the tiles gave; a tile that failed has no blob.
C17_BuildVisitsEveryTile ==
    (op.name = "Build" /\ op.ret = "true" /\ ~BuiltScene.empty) =>
        /\ op.built = ZOuterXInner(numTilesX_, numTilesZ_)
        /\ \A b \in Blobs(tileCache_) :
              SceneKind(BuiltScene, b.tx, b.ty) \notin {"none", "broken", "badlayer"}

\* Build() went on after a tile that failed in Recast and after a tile whose
\* layer would not serialize, and the last tile of the grid has its blobs.
C17_Witness ==
    /\ op.name = "Build" /\ op.ret = "true" /\ Len(op.built) = 4
    /\ SceneKind(BuiltScene, 0, 0) = "broken"
    /\ SceneKind(BuiltScene, 1, 0) = "badlayer"
    /\ \E b \in Blobs(tileCache_) : b.tx = 1 /\ b.ty = 1

\* C18: when a layer of a tile fails to serialize, the build inserts none
\* of the tile's layers into the cache, the layers before the failing one
\* included, and sends no area-rebuilt event for the tile.
C18_FailedLayerAbortsTile ==
    (op.name \in {"Build", "BuildBox", "BuildRange"} /\ ~crashed) =>
        \A i \in 1..Len(op.built) :
            LET x == op.built[i][1]
                z == op.built[i][2]
            IN  SceneKind(BuiltScene, x, z) = "badlayer" =>
                    /\ \A k \in 1..Len(op.calls) :
                          ~(op.calls[k][1] = "addTile" /\ op.calls[k][2] = x
                                /\ op.calls[k][3] = z)
                    /\ Ev("E_NAVIGATION_AREA_REBUILT", x, z) \notin SeqToSet(op.ev)

\* A partial build met a tile whose second layer would not serialize.
C18_Witness ==
    /\ op.name = "BuildRange" /\ op.ret = "true" /\ ~crashed
    /\ <<0, 0>> \in SeqToSet(op.built)
    /\ SceneKind(BuiltScene, 0, 0) = "badlayer"
    /\ Logged("error: Failed to build tile cache layers")

\* The tile (x, z) of the scene just built yields no blob.
YieldsNothing(x, z) == SceneKind(BuiltScene, x, z) \in {"none", "broken", "badlayer"}

\* An obstacle registered by the operation found the blobs of its tile in
\* the cache, unless the build produced none for that tile.
RegisteredOnBlobs(o) ==
    \/ op.name = "Build" /\ YieldsNothing(ObPos(o)[1], ObPos(o)[2])
    \/ \E b \in Blobs(tileCache_) : b.tx = ObPos(o)[1] /\ b.ty = ObPos(o)[2]

\* C16: in Allocate and in Build(), no blob is inserted after an obstacle
\* was registered, and each obstacle the operation registers finds the
\* blobs of the tile it overlaps in the cache.
C16_ObstaclesAfterBlobs ==
    (op.name \in {"Allocate", "Build"} /\ ~crashed) =>
        \A k \in 1..Len(op.calls) :
            op.calls[k][1] = "addObstacle" =>
                /\ \A j \in k..Len(op.calls) : op.calls[j][1] # "addTile"
                /\ RegisteredOnBlobs(op.calls[k][2])

\* The same for Build() alone.
BuildObstaclesAfterBlobs == op.name = "Build" => C16_ObstaclesAfterBlobs

\* C19: BuildTile leaves the blobs of the tile cache alone: no operation
\* that calls it has a blob removed from the cache by BuildTile, nor ends
\* the program inside it.
C19_BuildTileLeavesCache ==
    op.name \in {"Build", "BuildBox", "BuildRange"} =>
        /\ ~crashed
        /\ \A k \in 1..Len(op.calls) : op.calls[k][1] # "BuildTile removeTile"

\* The connection overlaps the bounds of the layer of tile t.
Overlaps(c, t) == c.start = t \/ c.end = t

\* C20: the connections process() hands to the cache for a layer are those
\* of the subtree's off-mesh connections that are enabled, have an end
\* point and overlap the layer's bounds, and no other.
C20_InjectedConnectionsOverlap ==
    op.name = "process" =>
        SeqToSet(op.out) =
            {ConnectionData(c) : c \in {d \in SeqToSet(op.arg[1]) :
                                           d.enabled /\ d.hasEnd /\ Overlaps(d, op.arg[2])}}

\* The connections handed over are among the enabled ones with an end point.
InjectedAreEnabled ==
    op.name = "process" =>
        SeqToSet(op.out) \subseteq
            {ConnectionData(c) : c \in {d \in SeqToSet(op.arg[1]) : d.enabled /\ d.hasEnd}}

\* The data of the connections a call of process() collects.
CollectedData(connections) ==
    LET cs == CollectOffMeshConnections(connections, [min |-> <<0, 0>>, max |-> <<0, 0>>])
    IN  [i \in 1..Len(cs) |-> ConnectionData(cs[i])]

\* C21: the connection arrays process() hands over for a tile are those of
\* the connections collected at that very call, whatever connections the
\* earlier calls found.
C21_ConnectionDataIsFresh ==
    op.name = "process" => op.out = CollectedData(op.arg[1])

\* The slots of the current tile cache that hold a registered obstacle.
LiveSlots ==
    IF ~tileCache_.alloc THEN {}
    ELSE {i \in 0..(tileCache_.maxObstacles - 1) :
              tileCache_.obs[i + 1].state \in {"processing", "processed"}}

\* The handle names a registered obstacle of the current tile cache.
Registered(ref) ==
    /\ ref # 0
    /\ ref % Pow2(DtObstacleIdxBits) \in LiveSlots
    /\ tileCache_.obs[(ref % Pow2(DtObstacleIdxBits)) + 1].salt
           = ref \div Pow2(DtObstacleIdxBits)

\* C22: an obstacle's handle is non-zero exactly when the obstacle is
\* registered in the current tile cache, and the cache holds one
\* registration for every such obstacle and no other.
C22_HandleIffRegistered ==
    /\ \A o \in DOMAIN obstacleId_ : obstacleId_[o] # 0 => Registered(obstacleId_[o])
    /\ \A o, p \in DOMAIN obstacleId_ :
          (o # p /\ obstacleId_[o] # 0) => obstacleId_[o] # obstacleId_[p]
    /\ Cardinality(LiveSlots) = Cardinality({o \in DOMAIN obstacleId_ : obstacleId_[o] # 0})

\* C23: after RemoveTile(t) on an existing mesh the cache holds no blob at
\* t and the navmesh no tile at t.
C23_RemoveTileRemovesAllLayers ==
    (op.name = "RemoveTile" /\ navMesh_.alloc /\ ~crashed) =>
        /\ \A b \in Blobs(tileCache_) : ~(b.tx = op.arg[1] /\ b.ty = op.arg[2])
        /\ \A t \in navMesh_.tiles : ~(t.x = op.arg[1] /\ t.z = op.arg[2])

\* C24: called while there is no tile cache, GetTileData returns an empty
\* buffer, AddTile returns false and RemoveAllTiles does nothing; none of
\* them ends the program.
C24_NoCacheNoUse ==
    [][(op'.name \in {"GetTileData", "AddTile", "RemoveAllTiles"} /\ ~tileCache_.alloc) =>
          /\ ~crashed'
          /\ tileCache_' = tileCache_ /\ navMesh_' = navMesh_
          /\ op'.name = "GetTileData" => op'.out = <<>>
          /\ op'.name = "AddTile" => op'.ret = "false"]_vars

\* C25: after Allocate, Build(), SetNavigationDataAttr and the release in
\* them, the navmesh exists exactly when the tile cache exists.
C25_NavMeshIffTileCache ==
    op.name \in {"new", "Allocate", "Build", "SetNavigationDataAttr"} =>
        (navMesh_.alloc <=> tileCache_.alloc)

\* A Build() that had made its navmesh and then failed to allocate the tile
\* cache has left neither.
C25_Witness ==
    /\ op.name = "Build" /\ op.ret = "false"
    /\ Logged("error: Could not allocate tile cache")
    /\ ~navMesh_.alloc /\ ~tileCache_.alloc

\* The call acts on the blob of layer l of tile (x, z).
OnBlob(call, names, x, z, l) ==
    call[1] \in names /\ call[2] = x /\ call[3] = z /\ call[4] = l

\* C26: every layer blob an operation allocates, in BuildTile or in
\* ReadTiles, is by the end of the operation either taken over by the tile
\* cache or freed.
C26_BlobsOwnedOrFreed ==
    (op.name \in {"Build", "BuildBox", "BuildRange", "AddTile", "SetNavigationDataAttr"}
        /\ ~crashed) =>
        \A k \in 1..Len(op.calls) :
            op.calls[k][1] = "alloc" =>
                \E j \in (k + 1)..Len(op.calls) :
                    OnBlob(op.calls[j], {"addTile", "free"},
                           op.calls[k][2], op.calls[k][3], op.calls[k][4])

\* The same for the blobs ReadTiles allocates.
ReadTilesBlobsOwnedOrFreed ==
    op.name \in {"AddTile", "SetNavigationDataAttr"} => C26_BlobsOwnedOrFreed

\* C27: when ReadTiles stops at a failing record, every blob the call
\* inserted before it has had the navmesh merge of its coordinate requested.
C27_FailedReadLeavesNoUnmergedBlob ==
    (op.name \in {"AddTile", "SetNavigationDataAttr"} /\ ~crashed
        /\ Logged("error: Failed to add tile")) =>
        \A k \in 1..Len(op.calls) :
            op.calls[k][1] = "addTile" =>
                \E j \in (k + 1)..Len(op.calls) :
                    IsMerge(op.calls[j], op.calls[k][2], op.calls[k][3])

\* C28: after a successful Allocate or Build() that made a navmesh, the
\* tile count given to the navmesh is at most two to the tile bits computed
\* from it, the tile bits are between 0 and 22, and tile count times
\* polygon count is at most 2^22.
C28_TileCountFitsBits ==
    (op.name \in {"Allocate", "Build"} /\ op.ret = "true" /\ navMesh_.alloc) =>
        /\ navMesh_.maxTiles <= Pow2(LogBaseTwo(navMesh_.maxTiles))
        /\ LogBaseTwo(navMesh_.maxTiles) \in 0..RefBits
        /\ navMesh_.maxTiles * navMesh_.maxPolys <= Pow2(RefBits)

\* A Build() of two tiles with 16 layers gave the navmesh 32 tiles and
\* 2^17 polygons.
C28_Witness ==
    /\ op.name = "Build" /\ op.ret = "true" /\ navMesh_.alloc
    /\ numTilesX_ * numTilesZ_ = 2 /\ maxLayers_ = DEFAULT_MAX_LAYERS
    /\ navMesh_.maxTiles = 2 * DEFAULT_MAX_LAYERS
    /\ navMesh_.maxPolys = Pow2(RefBits - 5)

\* C29: after Allocate and after Build() the tile cache has room for no
\* more compressed tiles than the navmesh has tiles.
C29_CacheFitsNavMesh ==
    (op.name \in {"Allocate", "Build"} /\ tileCache_.alloc) =>
        tileCache_.maxTiles <= navMesh_.maxTiles

\* The same for Build() alone.
BuildCacheFitsNavMesh == op.name = "Build" => C29_CacheFitsNavMesh

\* Two blocks share a byte; a size written as a negative integer reaches
\* past every address.
BlocksOverlap(b, c) ==
    /\ b.size # 0 /\ c.size # 0
    /\ b.size < 0 \/ c.start < b.start + b.size
    /\ c.size < 0 \/ b.start < c.start + c.size

LinearAllocatorSmallSizes ==
    [][(\A i \in 1..Len(op'.out) : op'.out[i].size >= 0)
       /\ (op'.name = "alloc" => op'.arg[1] >= 0)
       => (/\ allocator_'.top \in 0..allocator_'.capacity
           /\ (op'.name = "alloc" /\ op'.ret = "block") =>
                  /\ op'.out[Len(op'.out)].start = allocator_.top
                  /\ allocator_'.top = allocator_.top + op'.arg[1]
           /\ (op'.name = "alloc" /\ allocator_.top + op'.arg[1] > allocator_.capacity) =>
                  /\ op'.ret = "null"
                  /\ allocator_'.top = allocator_.top
           /\ op'.name = "free" => allocator_' = allocator_
           /\ op'.name = "reset" => allocator_'.top = 0
           /\ \A i, j \in 1..Len(op'.out) :
                  i # j => ~BlocksOverlap(op'.out[i], op'.out[j]))]_vars

====
